---- MODULE Spec2Model ----
(***************************************************************************)
(* School Equipment Lending Portal: the borrowing routes                   *)
(* (routes/borrowings.js), the equipment routes (routes/equipment.js), the *)
(* Mongoose models and the periodic sweeps of utils/overdueChecker.js.     *)
(*                                                                         *)
(* Every `await` of a handler is one step of the model: the database       *)
(* operation it waits for takes effect atomically, and the synchronous     *)
(* code up to the next `await` runs in the same step.  A Mongoose document *)
(* is a private copy of the stored record; save() writes back only the     *)
(* paths the handler modified.                                             *)
(***************************************************************************)
EXTENDS Integers, Sequences, FiniteSets, TLC

\* ------------------------------------------------------------------ bounds
MaxQuantity == 2
MaxTime == 1
MaxBorrowings == 1

\* --------------------------------------------------------------- constants
NoDate == -1
NoUser == "none"
NoValue == "none"

Statuses == {"pending", "approved", "rejected", "issued", "returned", "overdue"}
BorrowingConditions == {"excellent", "good", "fair", "poor"}
EquipmentConditions == {"excellent", "good", "fair", "poor", "under_maintenance"}
\* The filter leaves the overdue borrowings out.
ActiveStatusesWithoutOverdue == {"approved", "issued"}

\* The filter counts the pending borrowings as well.
ActiveStatusesWithPending == {"pending", "approved", "issued", "overdue"}

\* status: { $in: ['approved', 'issued', 'overdue'] }
ActiveStatuses == {"approved", "issued", "overdue"}
Users == {"student", "staff", "admin"}
Role(u) == u

\* Response messages of the handlers
Ok == "ok"
Forbidden == "Access denied"
BorrowingNotFound == "Borrowing request not found"
EquipmentNotFound == "Equipment not found"
AlreadyProcessed == "Request already processed"
InsufficientStock == "Not enough equipment available"
AlreadyBooked == "Equipment already booked for this period"
OnlyApprovedIssued == "Only approved requests can be issued"
OnlyIssuedReturned == "Only issued equipment can be returned"
ValidationFailed == "Validation error"
ServerError == "Server error"

\* ------------------------------------------------------------------- state
VARIABLES
    equipment,    \* the Equipment collection: id -> stored record
    borrowings,   \* the Borrowing collection: sequence of stored records, id = index
    now,          \* the wall clock read by new Date()
    req,          \* the request handlers in flight: slot -> handler state
    overdueRun,   \* the runs of checkOverdueBorrowings: run -> state
    availRun      \* the runs of updateEquipmentAvailability: run -> state

vars == <<equipment, borrowings, now, req, overdueRun, availRun>>

\* ------------------------------------------------------- Mongoose documents
\* The nested path damageReport of a document nothing was reported on:
\* repairStatus has the schema default, the other paths are unset (the
\* description, once set, is the pair of conditions it names).
NoDamageReport ==
    [description |-> <<>>, reportedAt |-> NoDate, reportedBy |-> NoUser,
     repairStatus |-> "reported"]

\* A loaded document: the values read, and the paths modified since.
NoBorrowing ==
    [equipment |-> 0, user |-> NoUser, quantity |-> 0, borrowDate |-> NoDate,
     dueDate |-> NoDate, returnDate |-> NoDate, status |-> "pending",
     approvedBy |-> NoUser, approvedAt |-> NoDate, issuedAt |-> NoDate,
     conditionBefore |-> NoValue, conditionAfter |-> NoValue, notes |-> NoValue,
     damageReport |-> NoDamageReport]

NoEquipment ==
    [quantity |-> 0, availableQuantity |-> 0, condition |-> NoValue, isActive |-> FALSE]

NoDoc == [doc |-> NoBorrowing, dirty |-> {}]
NoEquipDoc == [doc |-> NoEquipment, dirty |-> {}]

Load(record) == [doc |-> record, dirty |-> {}]

\* doc.path = value: the path is marked modified when the value changes.
SetPath(d, path, value) ==
    IF d.doc[path] = value THEN d
    ELSE [doc |-> [d.doc EXCEPT ![path] = value], dirty |-> d.dirty \cup {path}]

\* doc.save() of a loaded document: $set of the modified paths on the stored record.
SavedRecord(stored, d) ==
    [f \in DOMAIN stored |-> IF f \in d.dirty THEN d.doc[f] ELSE stored[f]]

Max(a, b) == IF a >= b THEN a ELSE b

\* equipmentSchema.pre('save') of a loaded (not new) document: when quantity is
\* modified, availableQuantity moves by quantity - (_originalQuantity || quantity);
\* _originalQuantity is only set by the second hook, after this one has run.
PreSaveEquipment(d) ==
    IF "quantity" \in d.dirty
    THEN LET oldQuantity == d.doc.quantity
             quantityDiff == d.doc.quantity - oldQuantity
         IN  SetPath(d, "availableQuantity", Max(0, d.doc.availableQuantity + quantityDiff))
    ELSE d

\* await equipment.save()
SavedEquipment(stored, d) == SavedRecord(stored, PreSaveEquipment(d))

\* Schema validation of the paths a save() writes (enum and min validators; an
\* unset path passes its enum validator).
ValidBorrowingPath(doc, path) ==
    CASE path = "quantity" -> doc.quantity >= 1
      [] path = "status" -> doc.status \in Statuses
      [] path = "conditionBefore" ->
             doc.conditionBefore = NoValue \/ doc.conditionBefore \in BorrowingConditions
      [] path = "conditionAfter" ->
             doc.conditionAfter = NoValue \/ doc.conditionAfter \in BorrowingConditions
      [] OTHER -> TRUE

ValidBorrowing(d) == \A path \in d.dirty : ValidBorrowingPath(d.doc, path)

\* ---------------------------------------------------------------- requests
NoBody == [quantity |-> 0, dueDate |-> NoDate, conditionAfter |-> NoValue, notes |-> NoValue]

Idle ==
    [op |-> "none", pc |-> "idle", user |-> NoUser, id |-> 0, body |-> NoBody,
     borrowing |-> NoDoc, equipment |-> NoEquipDoc, since |-> NoDate,
     result |-> NoValue]

Slots == DOMAIN req

Free(p) == req[p].pc \in {"idle", "done"}

\* res.status(...).json(...): the handler ends; its locals are dropped.
Responded(r, msg) ==
    [Idle EXCEPT !.op = r.op, !.pc = "done", !.user = r.user, !.id = r.id, !.result = msg]

Respond(p, msg) == req' = [req EXCEPT ![p] = Responded(req[p], msg)]

\* middleware authorize(...roles): the caller's role must be one of roles.
Authorize(u, roles) == Role(u) \in roles

\* A request arrives in slot p and passes (or fails) the route's middleware.
Arrive(p, op, u, id, body, roles, first) ==
    /\ Free(p)
    /\ LET r == [Idle EXCEPT !.op = op, !.user = u, !.id = id, !.body = body]
       IN  req' = [req EXCEPT ![p] =
                     IF Authorize(u, roles) THEN [r EXCEPT !.pc = first]
                     ELSE Responded(r, Forbidden)]
    /\ UNCHANGED <<equipment, borrowings, now, overdueRun, availRun>>

At(p, op, pc) == req[p].op = op /\ req[p].pc = pc

\* await borrowing.save() of a loaded document, then res.json(borrowing); a
\* validation error is thrown before the write and answered by the catch block.
SaveBorrowing(p) ==
    IF ValidBorrowing(req[p].borrowing)
    THEN /\ borrowings' = [borrowings EXCEPT ![req[p].id] = SavedRecord(@, req[p].borrowing)]
         /\ Respond(p, Ok)
    ELSE /\ borrowings' = borrowings
         /\ Respond(p, ServerError)

\* ----------------------------------------------------- PATCH /:id/approve
StartApprove(p, u, id) ==
    Arrive(p, "approve", u, id, NoBody, {"staff", "admin"}, "findBorrowing")

\* The check passes only a rejected borrowing off as processed.
ProcessedOnlyIfRejected(status) == status = "rejected"

\* if (borrowing.status !== 'pending')
Processed(status) == status # "pending"

\* const borrowing = await Borrowing.findById(...); status check
ApproveFindBorrowing(p) ==
    /\ At(p, "approve", "findBorrowing")
    /\ LET id == req[p].id
       IN  IF id \notin DOMAIN borrowings THEN Respond(p, BorrowingNotFound)
           ELSE IF Processed(borrowings[id].status) THEN Respond(p, AlreadyProcessed)
           ELSE req' = [req EXCEPT ![p].pc = "findEquipment",
                                   ![p].borrowing = Load(borrowings[id])]
    /\ UNCHANGED <<equipment, borrowings, now, overdueRun, availRun>>

\* The check lets every quantity through.
StockCheckOff(availableQuantity, quantity) == FALSE

\* The comparison with its operands exchanged.
StockCheckSwapped(availableQuantity, quantity) == quantity < availableQuantity

\* if (equipment.availableQuantity < borrowing.quantity)
StockCheckFails(availableQuantity, quantity) == availableQuantity < quantity

\* const equipment = await Equipment.findById(...); stock check; decrement
ApproveFindEquipment(p) ==
    /\ At(p, "approve", "findEquipment")
    /\ LET b == req[p].borrowing.doc
           e == Load(equipment[b.equipment])
       IN  IF StockCheckFails(e.doc.availableQuantity, b.quantity)
           THEN Respond(p, InsufficientStock)
           ELSE req' = [req EXCEPT
                  ![p].pc = "saveEquipment",
                  ![p].equipment =
                      SetPath(e, "availableQuantity", e.doc.availableQuantity - b.quantity)]
    /\ UNCHANGED <<equipment, borrowings, now, overdueRun, availRun>>

\* await equipment.save(); borrowing.status = 'approved'; approvedBy; approvedAt
ApproveSaveEquipment(p) ==
    /\ At(p, "approve", "saveEquipment")
    /\ LET eid == req[p].borrowing.doc.equipment
           b1 == SetPath(req[p].borrowing, "status", "approved")
           b2 == SetPath(b1, "approvedBy", req[p].user)
           b3 == SetPath(b2, "approvedAt", now)
       IN  /\ equipment' = [equipment EXCEPT ![eid] = SavedEquipment(@, req[p].equipment)]
           /\ req' = [req EXCEPT ![p].pc = "saveBorrowing", ![p].borrowing = b3,
                                 ![p].equipment = NoEquipDoc]
    /\ UNCHANGED <<borrowings, now, overdueRun, availRun>>

\* await borrowing.save(); res.json(borrowing)
ApproveSaveBorrowing(p) ==
    /\ At(p, "approve", "saveBorrowing")
    /\ SaveBorrowing(p)
    /\ UNCHANGED <<equipment, now, overdueRun, availRun>>

\* ------------------------------------------------------ PATCH /:id/reject
StartReject(p, u, id) ==
    Arrive(p, "reject", u, id, NoBody, {"staff", "admin"}, "findBorrowing")

\* findById; status check; status = 'rejected'; approvedBy; approvedAt; notes
RejectFindBorrowing(p) ==
    /\ At(p, "reject", "findBorrowing")
    /\ LET id == req[p].id
       IN  IF id \notin DOMAIN borrowings THEN Respond(p, BorrowingNotFound)
           ELSE IF Processed(borrowings[id].status) THEN Respond(p, AlreadyProcessed)
           ELSE LET b1 == SetPath(Load(borrowings[id]), "status", "rejected")
                    b2 == SetPath(b1, "approvedBy", req[p].user)
                    b3 == SetPath(b2, "approvedAt", now)
                    b4 == SetPath(b3, "notes",
                             IF req[p].body.notes # NoValue THEN req[p].body.notes
                             ELSE "Request rejected")
                IN  req' = [req EXCEPT ![p].pc = "saveBorrowing", ![p].borrowing = b4]
    /\ UNCHANGED <<equipment, borrowings, now, overdueRun, availRun>>

RejectSaveBorrowing(p) ==
    /\ At(p, "reject", "saveBorrowing")
    /\ SaveBorrowing(p)
    /\ UNCHANGED <<equipment, now, overdueRun, availRun>>

\* ------------------------------------------------------- PATCH /:id/issue
\* The route admits every role.
IssuerRolesAnyone == {"student", "staff", "admin"}

\* authorize('staff', 'admin')
IssuerRoles == {"staff", "admin"}

StartIssue(p, u, id) ==
    Arrive(p, "issue", u, id, NoBody, IssuerRoles, "findBorrowing")

\* findById; status check; status = 'issued'; issuedAt
IssueFindBorrowing(p) ==
    /\ At(p, "issue", "findBorrowing")
    /\ LET id == req[p].id
       IN  IF id \notin DOMAIN borrowings THEN Respond(p, BorrowingNotFound)
           ELSE IF borrowings[id].status # "approved" THEN Respond(p, OnlyApprovedIssued)
           ELSE LET b1 == SetPath(Load(borrowings[id]), "status", "issued")
                    b2 == SetPath(b1, "issuedAt", now)
                IN  req' = [req EXCEPT ![p].pc = "saveBorrowing", ![p].borrowing = b2]
    /\ UNCHANGED <<equipment, borrowings, now, overdueRun, availRun>>

IssueSaveBorrowing(p) ==
    /\ At(p, "issue", "saveBorrowing")
    /\ SaveBorrowing(p)
    /\ UNCHANGED <<equipment, now, overdueRun, availRun>>

\* ------------------------------------------------------ PATCH /:id/return
\* The route has no authorize(): any authenticated user may call it.
StartReturn(p, u, id, body) ==
    Arrive(p, "return", u, id, body, Users, "findBorrowing")

\* The check lets an approved borrowing through as well.
ReturnableOrApproved(status) == status \in {"approved", "issued", "overdue"}

\* ['issued', 'overdue'].includes(borrowing.status)
Returnable(status) == status \in {"issued", "overdue"}

\* findById; status check
ReturnFindBorrowing(p) ==
    /\ At(p, "return", "findBorrowing")
    /\ LET id == req[p].id
       IN  IF id \notin DOMAIN borrowings THEN Respond(p, BorrowingNotFound)
           ELSE IF ~Returnable(borrowings[id].status)
                THEN Respond(p, OnlyIssuedReturned)
           ELSE req' = [req EXCEPT ![p].pc = "findEquipment",
                                   ![p].borrowing = Load(borrowings[id])]
    /\ UNCHANGED <<equipment, borrowings, now, overdueRun, availRun>>

\* The increment gives back one unit whatever the quantity.
ReleasedOne(availableQuantity, quantity) == availableQuantity + 1

\* equipment.availableQuantity += borrowing.quantity
Released(availableQuantity, quantity) == availableQuantity + quantity

\* const equipment = await Equipment.findById(...); increment
ReturnFindEquipment(p) ==
    /\ At(p, "return", "findEquipment")
    /\ LET b == req[p].borrowing.doc
           e == Load(equipment[b.equipment])
       IN  req' = [req EXCEPT
                  ![p].pc = "saveEquipment",
                  ![p].equipment =
                      SetPath(e, "availableQuantity",
                              Released(e.doc.availableQuantity, b.quantity))]
    /\ UNCHANGED <<equipment, borrowings, now, overdueRun, availRun>>

\* The damage check looks at the presence of conditionAfter only.
DamagedWheneverGiven(body, doc) == body.conditionAfter # NoValue

\* The damage check: req.body.conditionAfter && conditionAfter !== conditionBefore
Damaged(body, doc) ==
    body.conditionAfter # NoValue /\ body.conditionAfter # doc.conditionBefore

\* await equipment.save(); status = 'returned'; returnDate; conditionAfter; notes;
\* damageReport
ReturnSaveEquipment(p) ==
    /\ At(p, "return", "saveEquipment")
    /\ LET eid == req[p].borrowing.doc.equipment
           body == req[p].body
           b0 == req[p].borrowing
           b1 == SetPath(b0, "status", "returned")
           b2 == SetPath(b1, "returnDate", now)
           b3 == SetPath(b2, "conditionAfter",
                     IF body.conditionAfter # NoValue THEN body.conditionAfter
                     ELSE b0.doc.conditionBefore)
           b4 == SetPath(b3, "notes",
                     IF body.notes # NoValue THEN body.notes ELSE b0.doc.notes)
           b5 == IF Damaged(body, b0.doc)
                 THEN SetPath(b4, "damageReport",
                          [description |-> <<b0.doc.conditionBefore, body.conditionAfter>>,
                           reportedAt |-> now, reportedBy |-> req[p].user,
                           repairStatus |-> "reported"])
                 ELSE b4
       IN  /\ equipment' = [equipment EXCEPT ![eid] = SavedEquipment(@, req[p].equipment)]
           /\ req' = [req EXCEPT ![p].pc = "saveBorrowing", ![p].borrowing = b5,
                                 ![p].equipment = NoEquipDoc]
    /\ UNCHANGED <<borrowings, now, overdueRun, availRun>>

ReturnSaveBorrowing(p) ==
    /\ At(p, "return", "saveBorrowing")
    /\ SaveBorrowing(p)
    /\ UNCHANGED <<equipment, now, overdueRun, availRun>>

\* ------------------------------------------------- POST / (create borrowing)
\* express-validator: quantity isInt({min: 1}), dueDate isISO8601 (NoDate stands
\* for a missing or malformed date).
ValidCreateBody(body) == body.quantity >= 1 /\ body.dueDate # NoDate

Creating == Cardinality({p \in Slots : req[p].op = "create" /\ ~Free(p)})

\* The validators of POST / and the validationResult check.
ReceiveCreate(p, u, eid, body) ==
    /\ Free(p)
    /\ LET r == [Idle EXCEPT !.op = "create", !.user = u, !.id = eid, !.body = body]
       IN  req' = [req EXCEPT ![p] =
                     IF ValidCreateBody(body) THEN [r EXCEPT !.pc = "findEquipment"]
                     ELSE Responded(r, ValidationFailed)]
    /\ UNCHANGED <<equipment, borrowings, now, overdueRun, availRun>>

\* A creation request arrives while the collection has room for its document.
StartCreate(p, u, eid, body) ==
    /\ Len(borrowings) + Creating < MaxBorrowings
    /\ ReceiveCreate(p, u, eid, body)

\* The check looks at the existence of the equipment only.
MissingIgnoringActive(es, eid) == eid \notin DOMAIN es

\* if (!equipment || !equipment.isActive)
Missing(es, eid) == eid \notin DOMAIN es \/ ~es[eid].isActive

\* const equipment = await Equipment.findById(equipmentId); the checks; the
\* overlap query is built with new Date() taken here.
CreateFindEquipment(p) ==
    /\ At(p, "create", "findEquipment")
    /\ LET eid == req[p].id
       IN  IF Missing(equipment, eid)
           THEN Respond(p, EquipmentNotFound)
           ELSE IF StockCheckFails(equipment[eid].availableQuantity, req[p].body.quantity)
           THEN Respond(p, InsufficientStock)
           ELSE req' = [req EXCEPT ![p].pc = "findOverlapping",
                                   ![p].equipment = Load(equipment[eid]),
                                   ![p].since = now]
    /\ UNCHANGED <<equipment, borrowings, now, overdueRun, availRun>>

\* The filter of the overlap query; since is the new Date() of the query.
Overlapping(b, eid, dueDate, since) ==
    /\ b.equipment = eid
    /\ b.status \in {"approved", "issued", "pending"}
    /\ b.borrowDate <= dueDate
    /\ b.dueDate >= since

\* new Borrowing({user, equipment, quantity, dueDate, conditionBefore}); the
\* schema defaults give borrowDate = Date.now and status = 'pending'.
NewBorrowing(u, eid, body, condition, date) ==
    [NoBorrowing EXCEPT !.user = u, !.equipment = eid, !.quantity = body.quantity,
                        !.dueDate = body.dueDate, !.conditionBefore = condition,
                        !.borrowDate = date, !.status = "pending"]

\* await Borrowing.findOne({...overlapping...}); new Borrowing(...)
CreateFindOverlapping(p) ==
    /\ At(p, "create", "findOverlapping")
    /\ LET eid == req[p].id
           since == req[p].since
       IN  IF \E i \in DOMAIN borrowings :
                  Overlapping(borrowings[i], eid, req[p].body.dueDate, since)
           THEN Respond(p, AlreadyBooked)
           ELSE req' = [req EXCEPT
                  ![p].pc = "saveBorrowing",
                  ![p].borrowing =
                      [doc |-> NewBorrowing(req[p].user, eid, req[p].body,
                                            req[p].equipment.doc.condition, now),
                       dirty |-> DOMAIN NoBorrowing],
                  ![p].equipment = NoEquipDoc,
                  ![p].since = NoDate]
    /\ UNCHANGED <<equipment, borrowings, now, overdueRun, availRun>>

\* await borrowing.save() of the new document (every path is validated)
CreateSaveBorrowing(p) ==
    /\ At(p, "create", "saveBorrowing")
    /\ IF ValidBorrowing(req[p].borrowing)
       THEN /\ borrowings' = Append(borrowings, req[p].borrowing.doc)
            /\ Respond(p, Ok)
       ELSE /\ borrowings' = borrowings
            /\ Respond(p, ServerError)
    /\ UNCHANGED <<equipment, now, overdueRun, availRun>>

\* ------------------------------------------------- PUT /:id (equipment)
\* The update validators of findByIdAndUpdate(..., {runValidators: true}).
ValidEquipmentUpdate(updateData) ==
    /\ "quantity" \in DOMAIN updateData => updateData.quantity >= 0
    /\ "condition" \in DOMAIN updateData => updateData.condition \in EquipmentConditions

\* Equipment.findByIdAndUpdate(id, updateData): $set of the given paths; it is an
\* update query, so the pre('save') hooks of the schema do not run.
Updated(stored, updateData) ==
    [f \in DOMAIN stored |-> IF f \in DOMAIN updateData THEN updateData[f] ELSE stored[f]]

\* const { availableQuantity, ...updateData } = req.body
WithoutAvailableQuantity(body) ==
    [f \in DOMAIN body \ {"availableQuantity"} |-> body[f]]

UpdateEquipment(u, id, body) ==
    /\ Authorize(u, {"admin"})
    /\ id \in DOMAIN equipment
    /\ ValidEquipmentUpdate(WithoutAvailableQuantity(body))
    /\ equipment' = [equipment EXCEPT ![id] = Updated(@, WithoutAvailableQuantity(body))]
    /\ UNCHANGED <<borrowings, now, req, overdueRun, availRun>>

\* ---------------------------------------------- DELETE /:id (equipment)
\* Equipment.findByIdAndUpdate(id, { isActive: false })
DeleteEquipment(u, id) ==
    /\ Authorize(u, {"admin"})
    /\ id \in DOMAIN equipment
    /\ equipment' = [equipment EXCEPT ![id] = Updated(@, [isActive |-> FALSE])]
    /\ UNCHANGED <<borrowings, now, req, overdueRun, availRun>>

\* ------------------------------------------------ checkOverdueBorrowings
NoOverdueRun == [pc |-> "idle", now |-> NoDate, found |-> <<>>]
NoAvailRun == [pc |-> "idle", list |-> <<>>, availableQuantity |-> 0]

\* The filter leaves the approved borrowings out.
IsOverdueIssuedOnly(b, date) ==
    /\ b.status = "issued"
    /\ b.dueDate < date
    /\ b.returnDate = NoDate

\* The filter takes a borrowing due at `date` itself for overdue.
IsOverdueInclusive(b, date) ==
    /\ b.status \in {"approved", "issued"}
    /\ b.dueDate <= date
    /\ b.returnDate = NoDate

\* The filter of the sweep: approved or issued, due before `date`, not returned.
IsOverdue(b, date) ==
    /\ b.status \in {"approved", "issued"}
    /\ b.dueDate < date
    /\ b.returnDate = NoDate

\* The ids among 1..n (in order) whose borrowing matches the filter.
RECURSIVE OverdueIds(_, _, _)
OverdueIds(bs, n, date) ==
    IF n = 0 THEN <<>>
    ELSE IF IsOverdue(bs[n], date) THEN Append(OverdueIds(bs, n - 1, date), n)
    ELSE OverdueIds(bs, n - 1, date)

\* const overdueBorrowings = await Borrowing.find({...})
OverdueFind(k) ==
    /\ overdueRun[k].pc = "find"
    /\ LET found == OverdueIds(borrowings, Len(borrowings), overdueRun[k].now)
       IN  overdueRun' = [overdueRun EXCEPT ![k] =
               IF found = <<>> THEN NoOverdueRun
               ELSE [pc |-> "save", now |-> NoDate, found |-> found]]
    /\ UNCHANGED <<equipment, borrowings, now, req, availRun>>

\* borrowing.status = 'overdue'
MarkedOverdue(stored) == SavedRecord(stored, SetPath(Load(stored), "status", "overdue"))

\* borrowing.status = 'overdue'; await borrowing.save(): each document found has
\* status approved or issued, so status is its one modified path.
OverdueSave(k) ==
    /\ overdueRun[k].pc = "save"
    /\ LET id == Head(overdueRun[k].found)
           rest == Tail(overdueRun[k].found)
       IN  /\ borrowings' = [borrowings EXCEPT ![id] = MarkedOverdue(@)]
           /\ overdueRun' = [overdueRun EXCEPT ![k] =
                  IF rest = <<>> THEN NoOverdueRun
                  ELSE [overdueRun[k] EXCEPT !.found = rest]]
    /\ UNCHANGED <<equipment, now, req, availRun>>

\* ------------------------------------------- updateEquipmentAvailability
\* The list carries availableQuantity where the quantity is expected.
RECURSIVE ActiveEquipmentFromAvailable(_, _)
ActiveEquipmentFromAvailable(es, n) ==
    IF n = 0 THEN <<>>
    ELSE IF es[n].isActive
         THEN Append(ActiveEquipmentFromAvailable(es, n - 1),
                     [id |-> n, quantity |-> es[n].availableQuantity,
                      availableQuantity |-> es[n].availableQuantity])
    ELSE ActiveEquipmentFromAvailable(es, n - 1)

\* The active equipment among 1..n (in order), as read by Equipment.find.
RECURSIVE ActiveEquipment(_, _)
ActiveEquipment(es, n) ==
    IF n = 0 THEN <<>>
    ELSE IF es[n].isActive
         THEN Append(ActiveEquipment(es, n - 1),
                     [id |-> n, quantity |-> es[n].quantity,
                      availableQuantity |-> es[n].availableQuantity])
    ELSE ActiveEquipment(es, n - 1)

\* activeBorrowings.reduce((sum, borrowing) => sum + borrowing.quantity, 0)
RECURSIVE BorrowedQuantity(_, _, _)
BorrowedQuantity(bs, n, eid) ==
    IF n = 0 THEN 0
    ELSE BorrowedQuantity(bs, n - 1, eid)
         + (IF bs[n].equipment = eid /\ bs[n].status \in ActiveStatuses
            THEN bs[n].quantity ELSE 0)

\* The difference is stored without the clamp at zero.
ReconciledUnclamped(quantity, borrowedQuantity) == quantity - borrowedQuantity

\* Math.max(0, equipment.quantity - borrowedQuantity)
Reconciled(quantity, borrowedQuantity) == Max(0, quantity - borrowedQuantity)

\* const equipmentList = await Equipment.find({ isActive: true })
AvailFind(k) ==
    /\ availRun[k].pc = "find"
    /\ LET list == ActiveEquipment(equipment, Len(equipment))
       IN  availRun' = [availRun EXCEPT ![k] =
               IF list = <<>> THEN NoAvailRun
               ELSE [pc |-> "findBorrowings", list |-> list, availableQuantity |-> 0]]
    /\ UNCHANGED <<equipment, borrowings, now, req, overdueRun>>

\* The loop moves to the next equipment of the list, or the run ends.
AvailNext(r) ==
    IF Tail(r.list) = <<>> THEN NoAvailRun
    ELSE [pc |-> "findBorrowings", list |-> Tail(r.list), availableQuantity |-> 0]

\* const activeBorrowings = await Borrowing.find({...}); compare with the
\* availableQuantity of the document read by Equipment.find
AvailFindBorrowings(k) ==
    /\ availRun[k].pc = "findBorrowings"
    /\ LET e == Head(availRun[k].list)
           availableQuantity ==
               Reconciled(e.quantity, BorrowedQuantity(borrowings, Len(borrowings), e.id))
       IN  availRun' = [availRun EXCEPT ![k] =
               IF e.availableQuantity # availableQuantity
               THEN [availRun[k] EXCEPT !.pc = "save",
                                        !.availableQuantity = availableQuantity]
               ELSE AvailNext(availRun[k])]
    /\ UNCHANGED <<equipment, borrowings, now, req, overdueRun>>

\* equipment.availableQuantity = availableQuantity; await equipment.save()
AvailSave(k) ==
    /\ availRun[k].pc = "save"
    /\ LET e == Head(availRun[k].list)
           d == SetPath(Load([NoEquipment EXCEPT
                                 !.quantity = e.quantity,
                                 !.availableQuantity = e.availableQuantity]),
                        "availableQuantity", availRun[k].availableQuantity)
       IN  equipment' = [equipment EXCEPT ![e.id] = SavedEquipment(@, d)]
    /\ availRun' = [availRun EXCEPT ![k] = AvailNext(availRun[k])]
    /\ UNCHANGED <<borrowings, now, req, overdueRun>>

\* ------------------------------------------------------------ scheduling
\* checkOverdueBorrowings(); updateEquipmentAvailability(); each runs to its
\* first await: the overdue check has taken its `now`.
StartedOverdueRun == [pc |-> "find", now |-> now, found |-> <<>>]
StartedAvailRun == [pc |-> "find", list |-> <<>>, availableQuantity |-> 0]

\* The setInterval callback; run k is a run not in progress.
IntervalTick(k) ==
    /\ overdueRun[k].pc = "idle"
    /\ availRun[k].pc = "idle"
    /\ overdueRun' = [overdueRun EXCEPT ![k] = StartedOverdueRun]
    /\ availRun' = [availRun EXCEPT ![k] = StartedAvailRun]
    /\ UNCHANGED <<equipment, borrowings, now, req>>

\* Time passes.
ClockTick ==
    /\ now < MaxTime
    /\ now' = now + 1
    /\ UNCHANGED <<equipment, borrowings, req, overdueRun, availRun>>

\* ------------------------------------------------------- the whole system
\* A newly created equipment: POST / sets availableQuantity to quantity.
NewEquipment(quantity, condition) ==
    [quantity |-> quantity, availableQuantity |-> quantity, condition |-> condition,
     isActive |-> TRUE]

\* The inputs of the requests
CreateBodies ==
    {[NoBody EXCEPT !.quantity = q, !.dueDate = d] : q \in 1..MaxQuantity, d \in 0..MaxTime}
QuantityUpdates == {[quantity |-> q] : q \in 1..MaxQuantity}

\* The ids a request may name: the stored borrowings, and one that does not exist.
BorrowingIds == DOMAIN borrowings
UnknownId == Len(borrowings) + 1

NoRequests(n) == [p \in 1..n |-> Idle]
NoRuns == [k \in {1} |-> NoOverdueRun]
NoAvailRuns == [k \in {1} |-> NoAvailRun]

\* The server starts on a database holding one equipment and no borrowing; the
\* two sweeps are called once at startup.  Requests are served one at a time,
\* interleaved with the sweeps, the clock and the admin's edits.
Init ==
    /\ equipment \in {<<NewEquipment(q, "good")>> : q \in 1..MaxQuantity}
    /\ borrowings = <<>>
    /\ now = 0
    /\ req = NoRequests(1)
    /\ overdueRun = [k \in {1} |-> StartedOverdueRun]
    /\ availRun = [k \in {1} |-> StartedAvailRun]

Approve(p) ==
    \/ ApproveFindBorrowing(p) \/ ApproveFindEquipment(p)
    \/ ApproveSaveEquipment(p) \/ ApproveSaveBorrowing(p)

Reject(p) == RejectFindBorrowing(p) \/ RejectSaveBorrowing(p)

Issue(p) == IssueFindBorrowing(p) \/ IssueSaveBorrowing(p)

Return(p) ==
    \/ ReturnFindBorrowing(p) \/ ReturnFindEquipment(p)
    \/ ReturnSaveEquipment(p) \/ ReturnSaveBorrowing(p)

Create(p) == CreateFindEquipment(p) \/ CreateFindOverlapping(p) \/ CreateSaveBorrowing(p)

OverdueSweep(k) == OverdueFind(k) \/ OverdueSave(k)

AvailSweep(k) == AvailFind(k) \/ AvailFindBorrowings(k) \/ AvailSave(k)

Next ==
    \/ \E p \in Slots, id \in BorrowingIds :
          \/ StartApprove(p, "staff", id)
          \/ StartReject(p, "staff", id)
          \/ StartIssue(p, "staff", id)
          \/ StartReturn(p, "student", id, NoBody)
    \/ \E p \in Slots, eid \in DOMAIN equipment, body \in CreateBodies :
          StartCreate(p, "student", eid, body)
    \/ \E p \in Slots : Approve(p) \/ Reject(p) \/ Issue(p) \/ Return(p) \/ Create(p)
    \/ \E id \in DOMAIN equipment, body \in QuantityUpdates :
          UpdateEquipment("admin", id, body)
    \/ \E id \in DOMAIN equipment : DeleteEquipment("admin", id)
    \/ \E k \in DOMAIN overdueRun : IntervalTick(k) \/ OverdueSweep(k) \/ AvailSweep(k)
    \/ ClockTick

Spec == Init /\ [][Next]_vars

\* ------------------------------------------------------------ the ledger
\* The sum of quantity over the borrowings of equipment eid whose status is in
\* statuses.
RECURSIVE SumQuantity(_, _, _)
SumQuantity(ids, eid, statuses) ==
    IF ids = {} THEN 0
    ELSE LET i == CHOOSE j \in ids : TRUE
         IN  SumQuantity(ids \ {i}, eid, statuses)
             + (IF borrowings[i].equipment = eid /\ borrowings[i].status \in statuses
                THEN borrowings[i].quantity ELSE 0)

Committed(eid) == SumQuantity(DOMAIN borrowings, eid, {"approved", "issued", "overdue"})

\* C1: Invariant I1: every equipment has 0 <= availableQuantity <= quantity (its
\* total), in every reachable state.
C1_AvailableWithinTotal ==
    \A eid \in DOMAIN equipment :
        /\ 0 <= equipment[eid].availableQuantity
        /\ equipment[eid].availableQuantity <= equipment[eid].quantity

\* ------------------------------------------------- concurrent approvals
\* A pending borrowing as POST / stores it.
PendingBorrowing(eid, quantity, borrowDate, dueDate) ==
    NewBorrowing("student", eid, [NoBody EXCEPT !.quantity = quantity, !.dueDate = dueDate],
                 "good", borrowDate)

\* Two pending borrowings of one equipment whose stock is untouched: the first
\* was due before the second was requested, so the overlap query let both in.
\* Each of two slots serves one approve request; the steps of the two handlers
\* interleave freely.
InitApproveRace ==
    /\ equipment \in {<<NewEquipment(a, "good")>> : a \in 1..MaxQuantity}
    /\ borrowings \in {<<PendingBorrowing(1, q1, 0, 0), PendingBorrowing(1, q2, 1, 1)>> :
                          q1 \in 1..MaxQuantity, q2 \in 1..MaxQuantity}
    /\ now = 1
    /\ req = NoRequests(2)
    /\ overdueRun = NoRuns
    /\ availRun = NoAvailRuns

NextApproveRace ==
    \/ \E p \in Slots, id \in BorrowingIds :
          req[p].pc = "idle" /\ StartApprove(p, "staff", id)
    \/ \E p \in Slots : Approve(p)

SpecApproveRace == InitApproveRace /\ [][NextApproveRace]_vars

Finished(p, op) == req[p].op = op /\ req[p].pc = "done"

\* C2: Invariant I2 (no over-commitment): for every equipment, the quantities of
\* its approved, issued and overdue borrowings sum to at most its total quantity.
C2_NoOverCommitment ==
    \A eid \in DOMAIN equipment : Committed(eid) <= equipment[eid].quantity

\* C3: Scenario D: two approve calls on two distinct pending borrowings of the
\* same equipment, each quantity within the stock and their sum above it: once
\* both calls have answered, exactly one succeeded and the other failed with
\* "Not enough equipment available", and the stock went down by the approved
\* quantity alone.  (The stock before the calls is the equipment's quantity.)
C3_ExactlyOneApproved ==
    LET stock == equipment[1].quantity
        q(p) == borrowings[req[p].id].quantity
        granted(p) ==
            /\ req[p].result = Ok
            /\ req[3 - p].result = InsufficientStock
            /\ borrowings[req[p].id].status = "approved"
            /\ borrowings[req[3 - p].id].status = "pending"
            /\ equipment[1].availableQuantity = stock - q(p)
    IN  (/\ Finished(1, "approve") /\ Finished(2, "approve")
         /\ req[1].id # req[2].id
         /\ q(1) <= stock /\ q(2) <= stock /\ q(1) + q(2) > stock)
        => (granted(1) \/ granted(2))

\* C4: two approve calls on the same pending borrowing (its quantity within the
\* stock): once both have answered, one succeeded, the other was answered
\* "Request already processed", and the stock went down by the quantity once.
C4_OneSuccessOneAlreadyProcessed ==
    LET stock == equipment[1].quantity
        id == req[1].id
    IN  (/\ Finished(1, "approve") /\ Finished(2, "approve")
         /\ req[1].id = req[2].id
         /\ borrowings[id].quantity <= stock)
        => /\ {req[1].result, req[2].result} = {Ok, AlreadyProcessed}
           /\ equipment[1].availableQuantity = stock - borrowings[id].quantity

\* C9: Scenario B: an approve whose borrowing asks for more than the equipment's
\* availableQuantity at the time of the stock check is answered "Not enough
\* equipment available", and no step of that handler up to and including the
\* check writes to the equipment or to any borrowing (status, approvedBy and
\* approvedAt stay as they were).
C9_InsufficientStockChangesNothing ==
    [][\A p \in Slots :
          (/\ req[p].op = "approve"
           /\ req[p].pc \in {"findBorrowing", "findEquipment"}
           /\ req'[p] # req[p])
          => /\ UNCHANGED <<equipment, borrowings>>
             /\ (/\ req[p].pc = "findEquipment"
                 /\ equipment[req[p].borrowing.doc.equipment].availableQuantity
                        < req[p].borrowing.doc.quantity)
                <=> (req'[p].pc = "done" /\ req'[p].result = InsufficientStock)
      ]_vars

C9_Refused ==
    \E p \in Slots :
        /\ Finished(p, "approve")
        /\ req[p].result = InsufficientStock
        /\ borrowings[req[p].id].status = "pending"
        /\ borrowings[req[p].id].approvedBy = NoUser
        /\ borrowings[req[p].id].quantity > equipment[1].availableQuantity

\* ---------------------------------------------------- requests in sequence
Quiet == \A p \in Slots : Free(p)
SweepsIdle == \A k \in DOMAIN overdueRun : overdueRun[k].pc = "idle" /\ availRun[k].pc = "idle"

\* One equipment with its stock untouched and two pending borrowings, the first
\* already past its due date.  One request is served at a time, and a tick of the
\* sweeps runs to its end between two requests.
InitSequential ==
    /\ equipment \in {<<NewEquipment(a, "good")>> : a \in 1..MaxQuantity}
    /\ borrowings \in {<<PendingBorrowing(1, q1, 0, 0), PendingBorrowing(1, q2, 1, 1)>> :
                          q1 \in 1..MaxQuantity, q2 \in 1..MaxQuantity}
    /\ now = 1
    /\ req = NoRequests(1)
    /\ overdueRun = NoRuns
    /\ availRun = NoAvailRuns

NextSequential ==
    \/ \E p \in Slots, id \in BorrowingIds \cup {UnknownId} :
          /\ SweepsIdle
          /\ \/ StartApprove(p, "staff", id)
             \/ StartIssue(p, "staff", id)
             \/ StartReturn(p, "student", id, NoBody)
    \/ \E p \in Slots : Approve(p) \/ Issue(p) \/ Return(p)
    \/ \E k \in DOMAIN overdueRun : Quiet /\ IntervalTick(k)
    \/ \E k \in DOMAIN overdueRun : OverdueSweep(k) \/ AvailSweep(k)

SpecSequential == InitSequential /\ [][NextSequential]_vars

\* C5: approve is idempotent: between requests availableQuantity is the total
\* less the quantities approved and not yet returned (each approval took its
\* quantity exactly once), and an approve of a borrowing that is no longer
\* pending is answered "Request already processed" and writes nothing.
C5_ApproveOnce ==
    /\ [](Quiet => \A eid \in DOMAIN equipment :
                      equipment[eid].availableQuantity
                          = equipment[eid].quantity - Committed(eid))
    /\ [][\A p \in Slots :
             (/\ At(p, "approve", "findBorrowing")
              /\ req'[p] # req[p]
              /\ req[p].id \in DOMAIN borrowings
              /\ borrowings[req[p].id].status # "pending")
             => /\ req'[p].pc = "done"
                /\ req'[p].result = AlreadyProcessed
                /\ UNCHANGED <<equipment, borrowings>>
       ]_vars

C5_SecondApprove ==
    \E p \in Slots :
        /\ Finished(p, "approve")
        /\ req[p].result = AlreadyProcessed
        /\ borrowings[req[p].id].status = "approved"
        /\ equipment[1].availableQuantity
               = equipment[1].quantity - borrowings[req[p].id].quantity

\* The quantities committed to equipment eid by the borrowings other than id.
CommittedByOthers(eid, id) ==
    SumQuantity(DOMAIN borrowings \ {id}, eid, {"approved", "issued", "overdue"})

\* C6: round trip: when the return of a borrowing that was approved and issued
\* (and perhaps promoted to overdue) has answered, availableQuantity is back to
\* what it was before that borrowing was approved: the total less what the other
\* borrowings hold.
C6_RoundTrip ==
    \A p \in Slots :
        (Finished(p, "return") /\ req[p].result = Ok)
        => /\ borrowings[req[p].id].status = "returned"
           /\ equipment[1].availableQuantity
                  = equipment[1].quantity - CommittedByOthers(1, req[p].id)

C6_Returned ==
    \E p \in Slots :
        /\ Finished(p, "return") /\ req[p].result = Ok
        /\ borrowings[req[p].id].status = "returned"
        /\ borrowings[req[p].id].issuedAt # NoDate
        /\ borrowings[req[p].id].quantity = MaxQuantity
        /\ equipment[1].availableQuantity = equipment[1].quantity

\* ------------------------------------- requests and sweeps on one borrowing
\* A new request takes the first slot that is free.
FirstFree(p) == Free(p) /\ \A o \in Slots : o < p => ~Free(o)

\* One pending borrowing already past its due date; two requests at a time may
\* work on it while the interval fires.
InitLifecycle ==
    /\ equipment = <<NewEquipment(MaxQuantity, "good")>>
    /\ borrowings \in {<<PendingBorrowing(1, q, 0, 0)>> : q \in 1..MaxQuantity}
    /\ now = 1
    /\ req = NoRequests(2)
    /\ overdueRun = NoRuns
    /\ availRun = NoAvailRuns

NextLifecycle ==
    \/ \E p \in Slots, id \in BorrowingIds :
          /\ FirstFree(p)
          /\ \/ StartApprove(p, "staff", id)
             \/ StartReject(p, "staff", id)
             \/ StartIssue(p, "staff", id)
             \/ StartReturn(p, "student", id, NoBody)
    \/ \E p \in Slots : Approve(p) \/ Reject(p) \/ Issue(p) \/ Return(p)
    \/ \E k \in DOMAIN overdueRun : IntervalTick(k)
    \/ \E k \in DOMAIN overdueRun : OverdueSweep(k) \/ AvailSweep(k)

SpecLifecycle == InitLifecycle /\ [][NextLifecycle]_vars

AllowedEdges ==
    {<<"pending", "approved">>, <<"pending", "rejected">>,
     <<"approved", "issued">>, <<"approved", "overdue">>,
     <<"issued", "overdue">>, <<"issued", "returned">>,
     <<"overdue", "returned">>}

\* C7: lifecycle: the stored status of a borrowing changes only along
\* pending->approved, pending->rejected, approved->issued, approved->overdue,
\* issued->overdue, issued->returned, overdue->returned (so rejected and
\* returned are terminal), whatever requests and sweeps interleave.
C7_Lifecycle ==
    [][\A id \in DOMAIN borrowings :
          borrowings'[id].status # borrowings[id].status
          => <<borrowings[id].status, borrowings'[id].status>> \in AllowedEdges
      ]_vars

\* -------------------------------------------------- the sweeps on their own
\* A stored borrowing in a given state of its life.
StoredBorrowing(eid, quantity, dueDate, status, returnDate) ==
    [PendingBorrowing(eid, quantity, 0, dueDate) EXCEPT
        !.status = status, !.returnDate = returnDate]

\* An equipment whose availableQuantity may have drifted from the ledger.
StoredEquipment(quantity, availableQuantity, isActive) ==
    [NewEquipment(quantity, "good") EXCEPT
        !.availableQuantity = availableQuantity, !.isActive = isActive]

\* The interval has just fired on two equipment, the first active, with any
\* availableQuantity, and two borrowings due at time 0 in any state but
\* rejected and overdue; no request arrives while the two sweeps run.
InitReconcile ==
    /\ equipment \in {<<StoredEquipment(q1, a1, TRUE), StoredEquipment(MaxQuantity, a2, c2)>> :
                         q1 \in 1..MaxQuantity, a1 \in 0..MaxQuantity,
                         a2 \in 0..MaxQuantity, c2 \in BOOLEAN}
    /\ borrowings \in {<<StoredBorrowing(e1, n1, 0, s1, NoDate),
                         StoredBorrowing(e2, n2, 0, s2, NoDate)>> :
                          e1 \in 1..2, e2 \in 1..2,
                          n1 \in 1..MaxQuantity, n2 \in 1..MaxQuantity,
                          s1 \in {"pending", "approved", "issued", "returned"},
                          s2 \in {"pending", "approved", "issued", "returned"}}
    /\ now = 1
    /\ req = NoRequests(1)
    /\ overdueRun = [k \in {1} |-> StartedOverdueRun]
    /\ availRun = [k \in {1} |-> StartedAvailRun]

NextReconcile == \E k \in DOMAIN availRun : OverdueSweep(k) \/ AvailSweep(k)

SpecReconcile == InitReconcile /\ [][NextReconcile]_vars

\* C8: when the reconciliation sweep has completed with no user action in
\* between, every active equipment has availableQuantity equal to its total
\* less the quantities of its approved, issued and overdue borrowings, or 0 when
\* that difference is negative.
C8_PostReconciliation ==
    (\A k \in DOMAIN availRun : availRun[k].pc = "idle")
    => \A eid \in DOMAIN equipment :
          equipment[eid].isActive
          => equipment[eid].availableQuantity
                 = (IF equipment[eid].quantity < Committed(eid) THEN 0
                    ELSE equipment[eid].quantity - Committed(eid))

C8_Reconciled ==
    /\ \A k \in DOMAIN availRun : availRun[k].pc = "idle"
    /\ equipment[1].quantity < Committed(1)
    /\ equipment[1].availableQuantity = 0
    /\ equipment[2].isActive
    /\ Committed(2) = 0
    /\ equipment[2].availableQuantity = equipment[2].quantity
    /\ \E id \in DOMAIN borrowings : borrowings[id].status = "overdue"

\* The overdue check has just started at time `now` on two borrowings in any
\* state; nothing else runs.
InitOverdueSweep ==
    /\ equipment = <<NewEquipment(MaxQuantity, "good")>>
    /\ borrowings \in {<<StoredBorrowing(1, 1, d1, s1, r1),
                         StoredBorrowing(1, 1, d2, s2, r2)>> :
                          d1 \in 0..MaxTime, d2 \in 0..MaxTime,
                          s1 \in Statuses, s2 \in Statuses,
                          r1 \in {NoDate, 0}, r2 \in {NoDate, 0}}
    /\ now \in 0..MaxTime
    /\ req = NoRequests(1)
    /\ overdueRun = [k \in {1} |-> StartedOverdueRun]
    /\ availRun = NoAvailRuns

NextOverdueSweep == \E k \in DOMAIN overdueRun : OverdueSweep(k)

SpecOverdueSweep == InitOverdueSweep /\ [][NextOverdueSweep]_vars

\* Approved or issued, due before the sweep time, with no returnDate.
Lapsed(b) ==
    /\ b.status = "approved" \/ b.status = "issued"
    /\ b.dueDate < now
    /\ b.returnDate = NoDate

\* C10: an overdue sweep run on its own changes a borrowing only by promoting
\* to overdue one that is approved or issued, due before the sweep time and
\* without returnDate, and when it has completed no such borrowing is left: the
\* borrowings promoted are exactly those, every other keeps its status.
C10_OverdueSweep ==
    /\ [][\A id \in DOMAIN borrowings :
             borrowings'[id] # borrowings[id]
             => /\ Lapsed(borrowings[id])
                /\ borrowings'[id] = [borrowings[id] EXCEPT !.status = "overdue"]
       ]_vars
    /\ []((\A k \in DOMAIN overdueRun : overdueRun[k].pc = "idle")
          => \A id \in DOMAIN borrowings : ~Lapsed(borrowings[id]))

C10_Promoted ==
    /\ \A k \in DOMAIN overdueRun : overdueRun[k].pc = "idle"
    /\ borrowings[1].status = "overdue"
    /\ borrowings[1].dueDate < now
    /\ borrowings[1].returnDate = NoDate
    /\ borrowings[2].status = "issued"
    /\ borrowings[2].dueDate < now
    /\ borrowings[2].returnDate # NoDate

\* ------------------------------------------------------ creation requests
MaxCreated == 2

\* The bodies of POST /: quantity 0 fails isInt({min: 1}) and NoDate is a
\* dueDate that is not an ISO 8601 date; a date may lie in the past.
AnyCreateBodies ==
    {[NoBody EXCEPT !.quantity = q, !.dueDate = d] :
        q \in 0..MaxQuantity, d \in {NoDate} \cup 0..(MaxTime + 1)}

\* One equipment, active or not, and no borrowing or one that is pending,
\* approved (its quantity taken from availableQuantity) or returned; creation
\* requests arrive one at a time while the clock advances and the equipment
\* may be deleted.
InitCreate ==
    /\ \E c \in BOOLEAN :
          \/ /\ equipment = <<StoredEquipment(MaxQuantity, MaxQuantity, c)>>
             /\ borrowings = <<>>
          \/ \E n \in 1..MaxQuantity, d \in 0..MaxTime,
                s \in {"pending", "approved", "returned"} :
                /\ equipment = <<StoredEquipment(MaxQuantity,
                                     IF s = "approved" THEN MaxQuantity - n
                                     ELSE MaxQuantity, c)>>
                /\ borrowings = <<StoredBorrowing(1, n, d, s, NoDate)>>
    /\ now = 0
    /\ req = NoRequests(1)
    /\ overdueRun = NoRuns
    /\ availRun = NoAvailRuns

NextCreate ==
    \/ \E p \in Slots, eid \in 1..(Len(equipment) + 1), body \in AnyCreateBodies :
          /\ Len(borrowings) < MaxCreated
          /\ ReceiveCreate(p, "student", eid, body)
    \/ \E p \in Slots : Create(p)
    \/ \E id \in DOMAIN equipment : DeleteEquipment("admin", id)
    \/ ClockTick

SpecCreate == InitCreate /\ [][NextCreate]_vars

\* C11: admission does not depend on stock or on other reservations: a creation
\* request with quantity >= 1 and a dueDate in the future, for an equipment
\* that exists and is active, is not answered with a refusal: when it is
\* answered, the answer is success.
C11_AdmissionIgnoresStock ==
    [][\A p \in Slots :
          (/\ req[p].op = "create" /\ ~Free(p)
           /\ req'[p].pc = "done"
           /\ req[p].body.quantity >= 1
           /\ req[p].body.dueDate > now
           /\ ~Missing(equipment, req[p].id))
          => req'[p].result = Ok
      ]_vars

\* C12: a creation request with quantity < 1, or with a dueDate that is not
\* later than the current time, is answered with the validation failure at
\* once, and no borrowing with such a quantity or dueDate is ever created.
C12_RejectsInvalidRequest ==
    [][/\ \A p \in Slots :
             (Free(p) /\ req'[p].op = "create" /\ req'[p] # req[p])
             => \/ req'[p].pc = "done" /\ req'[p].result = ValidationFailed
                \/ req'[p].body.quantity >= 1 /\ req'[p].body.dueDate > now
       /\ Len(borrowings') > Len(borrowings)
          => /\ borrowings'[Len(borrowings')].quantity >= 1
             /\ borrowings'[Len(borrowings')].dueDate
                    > borrowings'[Len(borrowings')].borrowDate
      ]_vars

\* C13: a creation request naming an equipment that does not exist or is not
\* active is answered "Equipment not found" when the equipment is looked up,
\* and that step leaves the borrowings and the equipment as they were.
C13_UnknownOrInactiveEquipment ==
    [][\A p \in Slots :
          (/\ At(p, "create", "findEquipment")
           /\ req'[p] # req[p]
           /\ \/ req[p].id \notin DOMAIN equipment
              \/ ~equipment[req[p].id].isActive)
          => /\ req'[p].pc = "done"
             /\ req'[p].result = EquipmentNotFound
             /\ UNCHANGED <<equipment, borrowings>>
      ]_vars

C13_Inactive ==
    \E p \in Slots :
        /\ Finished(p, "create")
        /\ req[p].result = EquipmentNotFound
        /\ req[p].id \in DOMAIN equipment
        /\ ~equipment[req[p].id].isActive
        /\ equipment[req[p].id].availableQuantity = MaxQuantity

\* ------------------------------------------- two returns of one borrowing
ReturnBodies ==
    {[NoBody EXCEPT !.conditionAfter = c] : c \in {NoValue, "good", "poor"}}

\* One issued borrowing whose quantity was taken from the stock; two return
\* requests for it, each sent once.
InitReturnRace ==
    /\ \E n \in 1..MaxQuantity :
          /\ equipment = <<StoredEquipment(MaxQuantity, MaxQuantity - n, TRUE)>>
          /\ borrowings = <<StoredBorrowing(1, n, 1, "issued", NoDate)>>
    /\ now = 1
    /\ req = NoRequests(2)
    /\ overdueRun = NoRuns
    /\ availRun = NoAvailRuns

NextReturnRace ==
    \/ \E p \in Slots, id \in BorrowingIds, body \in ReturnBodies :
          req[p].pc = "idle" /\ StartReturn(p, "student", id, body)
    \/ \E p \in Slots : Return(p)

SpecReturnRace == InitReturnRace /\ [][NextReturnRace]_vars

\* C14: release is clamped: the equipment write of a return sets
\* availableQuantity to the smaller of the total and availableQuantity plus the
\* quantity returned, so that a second release of the same borrowing never
\* raises it above the total.
C14_ReleaseClamped ==
    [][\A p \in Slots :
          (At(p, "return", "saveEquipment") /\ req'[p] # req[p])
          => LET eid == req[p].borrowing.doc.equipment
                 sum == equipment[eid].availableQuantity + req[p].borrowing.doc.quantity
             IN  /\ equipment'[eid].availableQuantity
                        = (IF sum < equipment[eid].quantity THEN sum
                           ELSE equipment[eid].quantity)
                 /\ equipment'[eid].availableQuantity <= equipment'[eid].quantity
      ]_vars

\* C15: resize: whenever the quantity of an equipment is edited from oldTotal
\* to newTotal, its availableQuantity becomes availableQuantity + newTotal -
\* oldTotal, clamped to 0..newTotal.
C15_Resize ==
    [][\A id \in DOMAIN equipment :
          equipment'[id].quantity # equipment[id].quantity
          => LET moved == equipment[id].availableQuantity
                              + equipment'[id].quantity - equipment[id].quantity
             IN  equipment'[id].availableQuantity
                     = (IF moved < 0 THEN 0
                        ELSE IF moved > equipment'[id].quantity
                             THEN equipment'[id].quantity
                        ELSE moved)
      ]_vars

\* ---------------------------------------- transitions of one borrowing
\* One borrowing in any state but returned, its quantity taken from the stock
\* when it is approved, issued or overdue; requests are served one at a time.
InitTransitions ==
    /\ \E n \in 1..MaxQuantity,
          s \in {"pending", "approved", "issued", "overdue", "rejected"} :
          /\ equipment = <<StoredEquipment(MaxQuantity,
                               IF s \in ActiveStatuses THEN MaxQuantity - n
                               ELSE MaxQuantity, TRUE)>>
          /\ borrowings = <<StoredBorrowing(1, n, 0, s, NoDate)>>
    /\ now = 1
    /\ req = NoRequests(1)
    /\ overdueRun = NoRuns
    /\ availRun = NoAvailRuns

NextTransitions ==
    \/ \E p \in Slots, id \in BorrowingIds :
          \/ StartApprove(p, "staff", id)
          \/ StartReject(p, "staff", id)
          \/ StartIssue(p, "staff", id)
          \/ \E body \in ReturnBodies : StartReturn(p, "student", id, body)
    \/ \E p \in Slots : Approve(p) \/ Reject(p) \/ Issue(p) \/ Return(p)

SpecTransitions == InitTransitions /\ [][NextTransitions]_vars

\* C16: a return that succeeds records conditionAfter as given, or as
\* conditionBefore when it is omitted, and leaves a damage report (a report
\* with its date, of repairStatus reported) on the borrowing exactly when the
\* recorded conditionAfter differs from conditionBefore.
C16_DamageReport ==
    [][\A p \in Slots :
          (At(p, "return", "saveBorrowing") /\ req'[p].result = Ok)
          => LET b == borrowings'[req[p].id]
                 given == req[p].body.conditionAfter
             IN  /\ b.status = "returned"
                 /\ b.conditionAfter
                        = (IF given = NoValue THEN b.conditionBefore ELSE given)
                 /\ b.damageReport.reportedAt # NoDate
                        <=> b.conditionAfter # b.conditionBefore
                 /\ b.damageReport.repairStatus = "reported"
      ]_vars

C16_Reported ==
    \E p \in Slots :
        /\ Finished(p, "return") /\ req[p].result = Ok
        /\ borrowings[req[p].id].status = "returned"
        /\ borrowings[req[p].id].conditionAfter = "poor"
        /\ borrowings[req[p].id].damageReport.reportedAt = now
        /\ borrowings[req[p].id].damageReport.description = <<"good", "poor">>

\* C20: a transition asked from a status outside its source set fails and
\* changes nothing: reject of a borrowing that is not pending is answered
\* "Request already processed", issue of one that is not approved and return
\* of one that is neither issued nor overdue are answered with the refusal
\* of that route, and the borrowings and the equipment are left as they were.
C20_InvalidTransition ==
    [][\A p \in Slots :
          (/\ req[p].pc = "findBorrowing"
           /\ req'[p] # req[p]
           /\ req[p].id \in DOMAIN borrowings)
          => LET status == borrowings[req[p].id].status
                 refused(msg) == /\ req'[p].pc = "done"
                                 /\ req'[p].result = msg
                                 /\ UNCHANGED <<equipment, borrowings>>
             IN  /\ (req[p].op = "reject" /\ status # "pending")
                        => refused(AlreadyProcessed)
                 /\ (req[p].op = "issue" /\ status # "approved")
                        => refused(OnlyApprovedIssued)
                 /\ (req[p].op = "return" /\ status \notin {"issued", "overdue"})
                        => refused(OnlyIssuedReturned)
      ]_vars

C20_ReturnRefused ==
    \E p \in Slots :
        /\ Finished(p, "return")
        /\ req[p].result = OnlyIssuedReturned
        /\ borrowings[req[p].id].status = "approved"
        /\ equipment[1].availableQuantity
               = equipment[1].quantity - borrowings[req[p].id].quantity

\* -------------------------------------------------- the interval and the runs
\* The runs called at startup are in progress when the interval fires; a second
\* run of each sweep may then be started.  One equipment whose availableQuantity
\* may have drifted, two borrowings of one unit, approved and past due or
\* returned.
InitSweepOverlap ==
    /\ equipment \in {<<StoredEquipment(MaxQuantity, a, TRUE)>> : a \in 0..MaxQuantity}
    /\ borrowings \in {<<StoredBorrowing(1, 1, 0, s1, NoDate),
                         StoredBorrowing(1, 1, 0, s2, NoDate)>> :
                          s1 \in {"approved", "returned"}, s2 \in {"approved", "returned"}}
    /\ now = 1
    /\ req = NoRequests(1)
    /\ overdueRun = [k \in 1..2 |-> IF k = 1 THEN StartedOverdueRun ELSE NoOverdueRun]
    /\ availRun = [k \in 1..2 |-> IF k = 1 THEN StartedAvailRun ELSE NoAvailRun]

NextSweepOverlap ==
    \E k \in DOMAIN overdueRun : IntervalTick(k) \/ OverdueSweep(k) \/ AvailSweep(k)

SpecSweepOverlap == InitSweepOverlap /\ [][NextSweepOverlap]_vars

\* C17: runs of the reconciler never overlap: at no time are two runs of the
\* overdue sweep, or two runs of the availability sweep, in progress.
C17_NoOverlap ==
    /\ Cardinality({k \in DOMAIN overdueRun : overdueRun[k].pc # "idle"}) <= 1
    /\ Cardinality({k \in DOMAIN availRun : availRun[k].pc # "idle"}) <= 1

\* ------------------------------------------------------ failures of a sweep
\* await borrowing.save() rejects (the write fails): the catch around the
\* whole of checkOverdueBorrowings logs the error and the function returns.
OverdueCatch(k) ==
    /\ overdueRun[k].pc = "save"
    /\ overdueRun' = [overdueRun EXCEPT ![k] = NoOverdueRun]
    /\ UNCHANGED <<equipment, borrowings, now, req, availRun>>

\* await Borrowing.find(...) or await equipment.save() rejects inside the loop
\* of updateEquipmentAvailability: the catch around the whole function logs the
\* error and the function returns.
AvailCatch(k) ==
    /\ availRun[k].pc \in {"findBorrowings", "save"}
    /\ availRun' = [availRun EXCEPT ![k] = NoAvailRun]
    /\ UNCHANGED <<equipment, borrowings, now, req, overdueRun>>

\* The two sweeps of one tick, any of whose reads and writes may fail.
NextSweepFailure ==
    \/ \E k \in DOMAIN availRun : OverdueSweep(k) \/ AvailSweep(k)
    \/ \E k \in DOMAIN overdueRun : OverdueCatch(k)
    \/ \E k \in DOMAIN availRun : AvailCatch(k)

SpecSweepFailure == InitReconcile /\ [][NextSweepFailure]_vars

\* C18: the failure of one item does not end a sweep: a run of either sweep
\* ends only at the last of its items, so that every item after a failed one
\* is still processed in the same run.
C18_FailureIsolation ==
    [][\A k \in DOMAIN overdueRun :
          /\ (overdueRun[k].pc = "save" /\ overdueRun'[k].pc = "idle")
                => Len(overdueRun[k].found) = 1
          /\ (availRun[k].pc \in {"findBorrowings", "save"} /\ availRun'[k].pc = "idle")
                => Len(availRun[k].list) = 1
      ]_vars

\* ------------------------------------------ a handler failing between writes
\* await borrowing.save() rejects (the write fails) after the equipment has
\* been saved: the catch of the handler answers 500 and the borrowing keeps
\* its stored state.  Failures stop once the availableQuantity they leave
\* behind has grown past MaxQuantity, which keeps the drift bounded.
BorrowingSaveFails(p) ==
    /\ req[p].pc = "saveBorrowing"
    /\ req[p].op \in {"approve", "return"}
    /\ equipment[req[p].borrowing.doc.equipment].availableQuantity <= MaxQuantity
    /\ Respond(p, ServerError)
    /\ UNCHANGED <<equipment, borrowings, now, overdueRun, availRun>>

\* One borrowing, pending or issued, past its due date, on an equipment whose
\* availableQuantity is exact.  Requests are served one at a time and the
\* write of the borrowing may fail; the interval fires between requests and no
\* request arrives while the sweeps run.
InitSelfHeal ==
    /\ \E q \in 1..MaxQuantity, n \in 1..MaxQuantity, s \in {"pending", "issued"} :
          /\ n <= q
          /\ equipment = <<StoredEquipment(q, IF s = "issued" THEN q - n ELSE q, TRUE)>>
          /\ borrowings = <<StoredBorrowing(1, n, 0, s, NoDate)>>
    /\ now = 1
    /\ req = NoRequests(1)
    /\ overdueRun = NoRuns
    /\ availRun = NoAvailRuns

NextSelfHeal ==
    \/ \E p \in Slots, id \in BorrowingIds :
          /\ SweepsIdle
          /\ \/ StartApprove(p, "staff", id)
             \/ StartIssue(p, "staff", id)
             \/ StartReturn(p, "student", id, NoBody)
    \/ \E p \in Slots : Approve(p) \/ Issue(p) \/ Return(p)
    \/ \E p \in Slots : BorrowingSaveFails(p)
    \/ \E k \in DOMAIN overdueRun : Quiet /\ IntervalTick(k)
    \/ \E k \in DOMAIN overdueRun : OverdueSweep(k) \/ AvailSweep(k)

SpecSelfHeal == InitSelfHeal /\ [][NextSelfHeal]_vars

InitReconcileTwice ==
    /\ equipment \in {<<StoredEquipment(q1, a1, TRUE), StoredEquipment(MaxQuantity, a2, c2)>> :
                         q1 \in 1..MaxQuantity, a1 \in 0..MaxQuantity,
                         a2 \in 0..MaxQuantity, c2 \in BOOLEAN}
    /\ borrowings \in {<<StoredBorrowing(e1, n1, 0, s1, NoDate),
                         StoredBorrowing(e2, n2, 0, s2, NoDate)>> :
                          e1 \in 1..2, e2 \in 1..2,
                          n1 \in 1..MaxQuantity, n2 \in 1..MaxQuantity,
                          s1 \in {"pending", "approved", "returned"},
                          s2 \in {"pending", "approved", "returned"}}
    /\ now = 1
    /\ req = NoRequests(1)
    /\ overdueRun = [k \in 1..2 |-> IF k = 1 THEN StartedOverdueRun ELSE NoOverdueRun]
    /\ availRun = [k \in 1..2 |-> IF k = 1 THEN StartedAvailRun ELSE NoAvailRun]

NextReconcileTwice ==
    \/ SweepsIdle /\ IntervalTick(2)
    \/ \E k \in DOMAIN availRun : OverdueSweep(k) \/ AvailSweep(k)

SpecReconcileTwice == InitReconcileTwice /\ [][NextReconcileTwice]_vars

\* C21: reconciliation is idempotent: a run of the availability sweep that
\* follows a completed run with nothing in between writes no equipment, so
\* every availableQuantity keeps the value the first run left.
C21_ReconcileIdempotent ==
    [][availRun[2].pc # "idle" => equipment' = equipment]_vars

C21_SecondRunEnded ==
    /\ availRun[2].pc = "idle"
    /\ overdueRun[2].pc # "idle"
    /\ equipment[1].availableQuantity = equipment[1].quantity - Committed(1)
    /\ Committed(1) > 0

\* ---------------------------------------------------- callers of any role
\* The state of InitTransitions; the requests come from users of every role.
NextRoles ==
    \/ \E p \in Slots, id \in BorrowingIds, u \in Users :
          \/ StartApprove(p, u, id)
          \/ StartReject(p, u, id)
          \/ StartIssue(p, u, id)
          \/ StartReturn(p, u, id, NoBody)
    \/ \E p \in Slots : Approve(p) \/ Reject(p) \/ Issue(p) \/ Return(p)

SpecRoles == InitTransitions /\ [][NextRoles]_vars

\* C22: role precondition: an approve, reject or issue sent by a user who is
\* neither staff nor admin is refused on arrival, and the borrowings and the
\* equipment are left as they were.
C22_RolePrecondition ==
    [][\A p \in Slots :
          (/\ Free(p)
           /\ req'[p] # req[p]
           /\ req'[p].op \in {"approve", "reject", "issue"}
           /\ Role(req'[p].user) \notin {"staff", "admin"})
          => /\ req'[p].pc = "done"
             /\ req'[p].result = Forbidden
             /\ UNCHANGED <<equipment, borrowings>>
      ]_vars

C22_StudentRefused ==
    \E p \in Slots :
        /\ Finished(p, "issue")
        /\ req[p].user = "student"
        /\ req[p].result = Forbidden
        /\ borrowings[req[p].id].status = "approved"

\* ------------------------------- requests, edits and sweeps on one ledger
\* One equipment with a pending borrowing and an issued one whose quantity is
\* taken from the stock; two requests, each an approve or a return sent once,
\* run together with the admin's edits of the quantity and the sweeps.
InitLedgerRace ==
    /\ \E n1 \in 1..MaxQuantity, n2 \in 1..MaxQuantity :
          /\ equipment = <<StoredEquipment(MaxQuantity, MaxQuantity - n2, TRUE)>>
          /\ borrowings = <<StoredBorrowing(1, n1, 0, "pending", NoDate),
                            StoredBorrowing(1, n2, 0, "issued", NoDate)>>
    /\ now = 1
    /\ req = NoRequests(2)
    /\ overdueRun = NoRuns
    /\ availRun = NoAvailRuns

NextLedgerRace ==
    \/ \E p \in Slots, id \in BorrowingIds :
          /\ req[p].pc = "idle"
          /\ \/ StartApprove(p, "staff", id)
             \/ StartReturn(p, "student", id, NoBody)
    \/ \E p \in Slots : Approve(p) \/ Return(p)
    \/ \E id \in DOMAIN equipment, body \in QuantityUpdates :
          UpdateEquipment("admin", id, body)
    \/ \E k \in DOMAIN overdueRun : IntervalTick(k)
    \/ \E k \in DOMAIN overdueRun : OverdueSweep(k) \/ AvailSweep(k)

SpecLedgerRace == InitLedgerRace /\ [][NextLedgerRace]_vars

\* C23: availableQuantity is never negative, whatever the interleaving of
\* approve and return requests, edits of the quantity and sweeps.
C23_NeverNegative ==
    \A eid \in DOMAIN equipment : equipment[eid].availableQuantity >= 0

C23_StockExhausted ==
    /\ equipment[1].availableQuantity = 0
    /\ borrowings[1].status = "approved"
    /\ \E p \in Slots : Finished(p, "approve") /\ req[p].result = InsufficientStock

\* ------------------------------------------------- the interval keeps firing
\* The server has started (both sweeps called) on one pending borrowing due at
\* time 0 or later; requests are served one at a time while the clock
\* advances.  The interval fires again and again, and a sweep that has started
\* runs to its end.
InitOverdueLive ==
    /\ equipment = <<NewEquipment(MaxQuantity, "good")>>
    /\ borrowings \in {<<PendingBorrowing(1, 1, 0, d)>> : d \in 0..MaxTime}
    /\ now = 0
    /\ req = NoRequests(1)
    /\ overdueRun = [k \in {1} |-> StartedOverdueRun]
    /\ availRun = [k \in {1} |-> StartedAvailRun]

NextOverdueLive ==
    \/ \E p \in Slots, id \in BorrowingIds :
          \/ StartApprove(p, "staff", id)
          \/ StartIssue(p, "staff", id)
          \/ StartReturn(p, "student", id, NoBody)
    \/ \E p \in Slots : Approve(p) \/ Issue(p) \/ Return(p)
    \/ \E k \in DOMAIN overdueRun : IntervalTick(k)
    \/ \E k \in DOMAIN overdueRun : OverdueSweep(k) \/ AvailSweep(k)
    \/ ClockTick

SpecOverdueLive ==
    /\ InitOverdueLive
    /\ [][NextOverdueLive]_vars
    /\ WF_vars(\E k \in DOMAIN overdueRun : IntervalTick(k))
    /\ WF_vars(\E k \in DOMAIN overdueRun : OverdueSweep(k))
    /\ WF_vars(\E k \in DOMAIN availRun : AvailSweep(k))

\* C24: liveness of the promotion: with the interval firing again and again,
\* a borrowing that is approved or issued, past its due date and without
\* returnDate is eventually overdue or returned.
C24_EventuallyOverdue ==
    (/\ borrowings[1].status \in {"approved", "issued"}
     /\ borrowings[1].dueDate < now
     /\ borrowings[1].returnDate = NoDate)
    ~> (borrowings[1].status \in {"overdue", "returned"})

C24_PromotedWhileApproved ==
    /\ borrowings[1].status = "overdue"
    /\ borrowings[1].approvedBy # NoUser
    /\ borrowings[1].issuedAt = NoDate
    /\ borrowings[1].dueDate < now

\* ------------------------------------------------ who writes availableQuantity
\* The bodies of PATCH /:id/return, one of them with a conditionAfter that is
\* not a value of the schema's enum.
AnyReturnBodies ==
    {[NoBody EXCEPT !.conditionAfter = c] : c \in {NoValue, "good", "poor", "broken"}}

\* The state of InitTransitions; requests of every kind are served one at a
\* time, the admin edits and deletes the equipment, the sweeps run.  A return
\* whose body is not valid is sent only while availableQuantity has not grown
\* past MaxQuantity, which keeps it bounded.
NextFrame ==
    \/ \E p \in Slots, id \in BorrowingIds :
          \/ StartApprove(p, "staff", id)
          \/ StartReject(p, "staff", id)
          \/ StartIssue(p, "staff", id)
          \/ \E body \in AnyReturnBodies :
                /\ \/ body \in ReturnBodies
                   \/ equipment[borrowings[id].equipment].availableQuantity <= MaxQuantity
                /\ StartReturn(p, "student", id, body)
    \/ \E p \in Slots : Approve(p) \/ Reject(p) \/ Issue(p) \/ Return(p)
    \/ \E id \in DOMAIN equipment, body \in QuantityUpdates :
          UpdateEquipment("admin", id, body)
    \/ \E id \in DOMAIN equipment : DeleteEquipment("admin", id)
    \/ \E k \in DOMAIN overdueRun : Quiet /\ IntervalTick(k)
    \/ \E k \in DOMAIN overdueRun : OverdueSweep(k) \/ AvailSweep(k)

SpecFrame == InitTransitions /\ [][NextFrame]_vars

\* C25: frame of availableQuantity: it changes only at the equipment write of
\* an approve or of a return, at an edit of the quantity, or at a write of
\* the availability sweep, and an approve or a return that has written the
\* equipment does not fail afterwards; reject, issue, the overdue sweep, the
\* deletion and every operation that fails leave it unchanged.
C25_Frame ==
    [][/\ \A eid \in DOMAIN equipment :
             equipment'[eid].availableQuantity # equipment[eid].availableQuantity
             => \/ \E p \in Slots :
                      /\ req[p].op \in {"approve", "return"}
                      /\ req[p].pc = "saveEquipment"
                      /\ req'[p].pc = "saveBorrowing"
                \/ equipment'[eid].quantity # equipment[eid].quantity
                \/ \E k \in DOMAIN availRun :
                      availRun[k].pc = "save" /\ availRun'[k] # availRun[k]
       /\ \A p \in Slots :
             (/\ req[p].op \in {"approve", "return"}
              /\ req[p].pc = "saveBorrowing"
              /\ req'[p].pc = "done")
             => req'[p].result = Ok
      ]_vars

\* ------------------------------------ the overdue sweep and one borrowing
\* One borrowing, approved or issued and past its due date, its quantity taken
\* from the stock; issue and return requests are served one at a time while
\* the interval fires and the sweeps run.
InitOverdueRace ==
    /\ \E n \in 1..MaxQuantity, s \in {"approved", "issued"} :
          /\ equipment = <<StoredEquipment(MaxQuantity, MaxQuantity - n, TRUE)>>
          /\ borrowings = <<StoredBorrowing(1, n, 0, s, NoDate)>>
    /\ now = 1
    /\ req = NoRequests(1)
    /\ overdueRun = NoRuns
    /\ availRun = NoAvailRuns

NextOverdueRace ==
    \/ \E p \in Slots, id \in BorrowingIds :
          \/ StartIssue(p, "staff", id)
          \/ \E body \in ReturnBodies : StartReturn(p, "student", id, body)
    \/ \E p \in Slots : Issue(p) \/ Return(p)
    \/ \E k \in DOMAIN overdueRun : IntervalTick(k)
    \/ \E k \in DOMAIN overdueRun : OverdueSweep(k) \/ AvailSweep(k)

SpecOverdueRace == InitOverdueRace /\ [][NextOverdueRace]_vars

\* C26: status overdue is written only by the overdue sweep, and in every
\* state a borrowing whose status is overdue is due before the current time
\* and has no returnDate, also when the sweep interleaves with an issue or a
\* return of the same borrowing.
C26_OverdueOnlyBySweep ==
    /\ [][\A id \in DOMAIN borrowings :
             (borrowings'[id].status = "overdue" /\ borrowings[id].status # "overdue")
             => \E k \in DOMAIN overdueRun :
                   overdueRun[k].pc = "save" /\ overdueRun'[k] # overdueRun[k]
       ]_vars
    /\ [](\A id \in DOMAIN borrowings :
             borrowings[id].status = "overdue"
             => borrowings[id].dueDate < now /\ borrowings[id].returnDate = NoDate)

\* C30: in every state a borrowing has a returnDate and a conditionAfter
\* exactly when its status is returned, also when an overdue sweep that read
\* the borrowing before a return writes its status after that return.
C30_ReturnDateIffReturned ==
    \A id \in DOMAIN borrowings :
        /\ borrowings[id].returnDate # NoDate <=> borrowings[id].status = "returned"
        /\ borrowings[id].conditionAfter # NoValue <=> borrowings[id].status = "returned"

\* --------------------------------------- creation and the equipment condition
\* One active equipment in any condition of the equipment schema, its stock
\* untouched, and no borrowing; creation requests with valid bodies arrive one
\* at a time while the clock advances.
InitCreateCondition ==
    /\ equipment \in {<<NewEquipment(MaxQuantity, c)>> : c \in EquipmentConditions}
    /\ borrowings = <<>>
    /\ now = 0
    /\ req = NoRequests(1)
    /\ overdueRun = NoRuns
    /\ availRun = NoAvailRuns

NextCreateCondition ==
    \/ \E p \in Slots, eid \in DOMAIN equipment, body \in CreateBodies :
          /\ Len(borrowings) < MaxCreated
          /\ ReceiveCreate(p, "student", eid, body)
    \/ \E p \in Slots : Create(p)
    \/ ClockTick

SpecCreateCondition == InitCreateCondition /\ [][NextCreateCondition]_vars

\* C27: every creation request that is admitted stores a borrowing with status
\* pending, no approver, no returnDate and conditionBefore equal to the
\* condition of the equipment, whatever that condition is.
C27_CreatedPending ==
    [][\A p \in Slots :
          (At(p, "create", "saveBorrowing") /\ req'[p].pc = "done")
          => /\ req'[p].result = Ok
             /\ Len(borrowings') = Len(borrowings) + 1
             /\ LET b == borrowings'[Len(borrowings')]
                IN  /\ b.status = "pending"
                    /\ b.approvedBy = NoUser
                    /\ b.returnDate = NoDate
                    /\ b.conditionBefore = equipment[req[p].id].condition
      ]_vars

\* --------------------------------- the availability sweep and one request
\* One equipment with a pending borrowing and an issued one whose quantity is
\* taken from the stock; approve and return requests are served one at a time
\* while the interval fires and the sweeps run.
InitSweepRace ==
    /\ \E n1 \in 1..MaxQuantity, n2 \in 1..MaxQuantity :
          /\ n1 + n2 <= MaxQuantity
          /\ equipment = <<StoredEquipment(MaxQuantity, MaxQuantity - n2, TRUE)>>
          /\ borrowings = <<StoredBorrowing(1, n1, 1, "pending", NoDate),
                            StoredBorrowing(1, n2, 1, "issued", NoDate)>>
    /\ now = 1
    /\ req = NoRequests(1)
    /\ overdueRun = NoRuns
    /\ availRun = NoAvailRuns

NextSweepRace ==
    \/ \E p \in Slots, id \in BorrowingIds :
          \/ StartApprove(p, "staff", id)
          \/ StartReturn(p, "student", id, NoBody)
    \/ \E p \in Slots : Approve(p) \/ Return(p)
    \/ \E k \in DOMAIN overdueRun : IntervalTick(k)
    \/ \E k \in DOMAIN overdueRun : OverdueSweep(k) \/ AvailSweep(k)

SpecSweepRace == InitSweepRace /\ [][NextSweepRace]_vars

\* C28: the availability sweep interleaved with an approve or a return on the
\* same equipment: once the request has been answered and the sweep has ended,
\* availableQuantity is the quantity less the quantities of the approved,
\* issued and overdue borrowings.
C28_SweepAndRequest ==
    (Quiet /\ SweepsIdle)
    => equipment[1].availableQuantity = equipment[1].quantity - Committed(1)

\* C29: the two sweeps of one tick run without waiting for each other, and with
\* no request in progress the availableQuantity left by the availability sweep
\* does not depend on how they interleave: no step of either sweep changes the
\* sum of the approved, issued and overdue quantities of an equipment, and
\* wherever the overdue sweep stands when the availability sweep ends, every
\* active equipment is left with its quantity less that sum, or 0.
C29_SweepsCommute ==
    /\ [][\A eid \in DOMAIN equipment : Committed(eid)' = Committed(eid)]_vars
    /\ [](\A k \in DOMAIN availRun :
             availRun[k].pc = "idle"
             => \A eid \in DOMAIN equipment :
                   equipment[eid].isActive
                   => \/ /\ equipment[eid].quantity <= Committed(eid)
                         /\ equipment[eid].availableQuantity = 0
                      \/ /\ equipment[eid].quantity > Committed(eid)
                         /\ equipment[eid].availableQuantity + Committed(eid)
                                = equipment[eid].quantity)

C29_LedgerFirst ==
    /\ availRun[1].pc = "idle"
    /\ overdueRun[1].pc = "save"
    /\ borrowings[1].equipment = 1
    /\ borrowings[1].status = "approved"
    /\ equipment[1].availableQuantity + Committed(1) = equipment[1].quantity

====
